---- MODULE Spec2Model ----
(***************************************************************************)
(* The DOCX-to-PDF conversion service of src/app.py as a state machine.    *)
(*                                                                         *)
(* Every handler and the background coroutine convert_file run on one      *)
(* asyncio event loop, so the code between two awaits that suspend is one  *)
(* atomic step.  The steps of a worker (one convert_file call) are:        *)
(*   pending    -> added by background_tasks.add_task, not yet started     *)
(*   converting -> suspended in `await engine.convert(...)`     (line 508) *)
(*   posting    -> suspended in `await client.post(...)`        (line 445) *)
(*   sleeping   -> suspended in `await asyncio.sleep(retry_delay)` (455)   *)
(*   done       -> convert_file returned                                   *)
(*   crashed    -> an exception (KeyError) left convert_file               *)
(* A worker that has returned or crashed has no locals left.               *)
(*                                                                         *)
(* `event` records the step just taken: the operation, the worker or id it *)
(* is about, the outcome the environment gave to the await that ended, and *)
(* what the called functions returned.  It is written by every step and    *)
(* read by none.                                                           *)
(*                                                                         *)
(* `scope` is drawn by Init and never changes.  It names the ids clients   *)
(* use, how many submissions are accepted, the outcomes the engines, the   *)
(* callback server and the file system can give, and how far the clock     *)
(* runs.  Solo follows one job through every outcome; Pair follows two     *)
(* jobs, possibly under one id, through the plain outcomes.                *)
(***************************************************************************)
EXTENDS Integers, Sequences, FiniteSets, TLC

\* ---------------------------------------------------------------- bounds
NumIds == 2        \* job ids in use in scope Pair
MaxTasks == 2      \* submissions accepted in scope Pair
SoloTasks == 1     \* submissions accepted in scope Solo
MaxTime == 2       \* last instant of the clock in scope Solo
PairTime == 1      \* last instant of the clock in scope Pair
MaxRefusals == 4   \* most removals in a row the file system refuses

\* ------------------------------------------------- configuration (app.py)
\* read from the environment at import; the sizes, ages and the pool size are
\* set to small values, the retry numbers are those of the code
MAX_WORKERS == 1
MAX_FILE_SIZE == 2
CLEANUP_INTERVAL == 1
MAX_FILE_AGE == 1
CLEANUP_ERROR_SLEEP == 1
max_retries == 3
initial_retry_delay == 1
remove_max_retries == 3
avg_processing_time == 30

\* --------------------------------------------------------- absent values
None == "none"     \* a key that is absent from a dict / a None value
NoTime == -1       \* an absent datetime
NoId == 0          \* nomor_urut not supplied (convertDua)
NoSize == -1       \* UploadFile.size is None

Ids == 1..NumIds

ERR_NO_ENGINES == "No conversion engines available"
ERR_ALL_FAILED == "All conversion engines failed"
ERR_UPLOAD == "Failed to upload PDF to target"

TARGET_URL == "http://target"

engines == <<"LibreOffice", "MS Word">>

\* available_engines is a subsequence of engines, fixed at import time
EngineLists == {<<>>, <<"LibreOffice">>, <<"MS Word">>, <<"LibreOffice", "MS Word">>}

\* file names offered by clients: <<stem, extension>>
Filenames == {<<"a", ".DOCX">>, <<"a", ".pdf">>}
Sizes == {NoSize, MAX_FILE_SIZE, MAX_FILE_SIZE + 1}

\* outcomes of one engine.convert call
\*   ok    : returned True and left a non-empty output file
\*   empty : returned True and left an output file of size 0
\*   fail  : returned False (failure or timeout inside the engine)
\*   raise : raised an exception
EngineOutcomes == {"ok", "empty", "fail", "raise"}

\* outcomes of one delivery attempt (one iteration of the retry loop)
\*   error    : httpx.HTTPError / httpx.TimeoutException
\*   response : a response with a status and a body
\*       json_marker   : a JSON object with the upload_data key
\*       json_nomarker : a JSON object or array without it
\*       json_scalar   : JSON that is no container (null, a number, a boolean)
\*       not_json      : not parseable as JSON
Statuses == {200, 404, 500}
Bodies == {"json_marker", "json_nomarker", "json_scalar", "not_json"}
TransportError == [kind |-> "error", status |-> 0, body |-> "none"]
NoOutcome == [kind |-> "none", status |-> 0, body |-> "none"]
Response(s, b) == [kind |-> "response", status |-> s, body |-> b]
PostOutcomes ==
    {TransportError} \cup {Response(200, b) : b \in Bodies}
                     \cup {Response(s, "not_json") : s \in Statuses \ {200}}

Solo ==
    [name |-> "solo",
     ids |-> {1},
     tasks |-> SoloTasks,
     endpoints |-> {"convert", "convertDua"},
     filenames |-> Filenames,
     sizes |-> Sizes,
     engine_outcomes |-> EngineOutcomes,
     post_outcomes |-> PostOutcomes,
     faults |-> TRUE,
     clock |-> MaxTime]

Pair ==
    [name |-> "pair",
     ids |-> Ids,
     tasks |-> MaxTasks,
     endpoints |-> {"convert"},
     filenames |-> {<<"a", ".DOCX">>},
     sizes |-> {MAX_FILE_SIZE, MAX_FILE_SIZE + 1},
     engine_outcomes |-> {"ok", "fail"},
     post_outcomes |-> {Response(200, "json_marker"), Response(404, "not_json")},
     faults |-> FALSE,
     clock |-> PairTime]

Scopes == {Solo, Pair}

VARIABLES
    conversion_status,   \* job id -> record (the global dict)
    files,               \* path -> "absent" | "empty" | "data"
    tasks,               \* the convert_file calls, in submission order
    available_engines,   \* engines whose is_available() was true at start
    now,                 \* the clock read by datetime.now()
    reaper_wake,         \* instant at which cleanup_old_conversions wakes
    event,               \* what the last step was and what its awaits gave
    scope                \* the part of the input space this run explores

vars == <<conversion_status, files, tasks, available_engines, now, reaper_wake,
          event, scope>>

\* ------------------------------------------------------------------ paths
input_path(id) == <<id, "docx">>
output_path(id) == <<id, "pdf">>
Paths == {input_path(id) : id \in Ids} \cup {output_path(id) : id \in Ids}

exists(f, p) == f[p] # "absent"
getsize_positive(f, p) == f[p] = "data"

\* str.lower() on the extensions that occur
lower(ext) == IF ext = ".DOCX" THEN ".docx" ELSE ext

\* file.filename.lower().endswith('.docx')
is_docx(filename) == lower(filename[2]) = ".docx"

\* too_large with the ceiling one byte too high
too_large_m(size) == size # NoSize /\ size # 0 /\ size > MAX_FILE_SIZE + 1

\* `file.size and file.size > MAX_FILE_SIZE`
too_large(size) == size # NoSize /\ size # 0 /\ size > MAX_FILE_SIZE

\* ------------------------------------------------------------ the store
\* Del that leaves the record in place
Del_m(cs, id) == cs

Put(cs, id, rec) == [k \in (DOMAIN cs) \cup {id} |-> IF k = id THEN rec ELSE cs[k]]
Del(cs, id) == [k \in (DOMAIN cs) \ {id} |-> cs[k]]

\* NewRecord with the wrong initial status: the record is born `processing`
NewRecord_m(id, filename, nomor_urut, target_url, endpoint_type) ==
    [id |-> id,
     filename |-> filename,
     nomor_urut |-> nomor_urut,
     target_url |-> target_url,
     endpoint_type |-> endpoint_type,
     status |-> "processing",
     created_time |-> now,
     input_path |-> input_path(id),
     output_path |-> output_path(id),
     start_time |-> NoTime,
     current_engine |-> None,
     engine_used |-> None,
     error |-> None,
     end_time |-> NoTime]

\* the dict literal of convert_docx / convert_dua; the keys written later by
\* convert_file are carried as absent
NewRecord(id, filename, nomor_urut, target_url, endpoint_type) ==
    [id |-> id,
     filename |-> filename,
     nomor_urut |-> nomor_urut,
     target_url |-> target_url,
     endpoint_type |-> endpoint_type,
     status |-> "queued",
     created_time |-> now,
     input_path |-> input_path(id),
     output_path |-> output_path(id),
     start_time |-> NoTime,
     current_engine |-> None,
     engine_used |-> None,
     error |-> None,
     end_time |-> NoTime]

\* lines 417-424: the URL of the delivery, <<base, path>>
NoUrl == <<None, None>>
post_url_of(rec) ==
    <<rec.target_url,
      IF rec.endpoint_type = "convertDua"
      THEN "/check/responseBalikConvertDua"
      ELSE "/check/responseBalikConvert">>

\* background_tasks.add_task(convert_file, temp_input, temp_output, id):
\* the locals of one convert_file call
NewTask(id) ==
    [id |-> id,
     pc |-> "pending",
     engine |-> 0,          \* index in available_engines of the engine running
     src_ok |-> FALSE,      \* the input file existed when engine.convert was called
     attempt |-> 0,         \* loop variable of the retry loop
     retry_delay |-> initial_retry_delay,   \* seconds the next sleep lasts
     post_url |-> NoUrl,    \* the URL the delivery posts to
     thread |-> FALSE]      \* a call of this worker is submitted to `executor`

\* convert_file has returned or crashed: its locals are gone; a call it left
\* in the executor would still be there
Finished(t, pc) == [NewTask(t.id) EXCEPT !.pc = pc, !.thread = t.thread]

\* the engines whose convert runs in the thread pool: MS Word goes through
\* loop.run_in_executor(executor, ...), LibreOffice through a subprocess
uses_executor(name) == name = "MS Word"

\* release_thread that keeps the thread when the call raised
release_thread_m(t, o) == IF o = "raise" THEN t ELSE [t EXCEPT !.thread = FALSE]

\* the call submitted to the executor has returned or raised (outcome o): the
\* thread that ran it goes back to the pool
release_thread(t, o) == [t EXCEPT !.thread = FALSE]

\* safe_remove_file for each path of ps; the removals in `refused` keep
\* raising PermissionError until the retries are used up
safe_remove_files(f, ps, refused) ==
    [p \in DOMAIN f |-> IF p \in ps /\ p \notin refused THEN "absent" ELSE f[p]]

\* safe_remove_file on a file that exists, from iteration `attempt` of its
\* loop on: the number of os.remove calls made so far when it returns, when
\* the file system refuses the first `refusals` calls with PermissionError
RECURSIVE remove_calls(_, _)
remove_calls(refusals, attempt) ==
    IF attempt >= remove_max_retries
    THEN attempt
    ELSE IF attempt < refusals
    THEN IF attempt < remove_max_retries - 1
         THEN remove_calls(refusals, attempt + 1)
         ELSE attempt + 1
    ELSE attempt + 1

\* whether safe_remove_file returns True then: a call was not refused
remove_result(refusals) == refusals < remove_calls(refusals, 0)

\* ---------------------------------------------------- convert_file, parts
\* Each operator takes the dict, the files and the worker and gives them as
\* they are when the worker next suspends, returns or crashes, with
\*   ret    : what convert_file returned ("true", "false"), "crashed" when an
\*            exception left it, "none" while it is suspended
\*   upload : what upload_pdf_to_target returned in this step, if called
\*   opened : whether open(pdf_path) succeeded in this step, if called
Step(cs, f, t, ret) ==
    [cs |-> cs, f |-> f, t |-> t, ret |-> ret, upload |-> None, opened |-> None]

\* all_engines_failed recording the message of the no-engine case
all_engines_failed_m(cs, f, t) ==
    IF t.id \notin DOMAIN cs
    THEN Step(cs, f, Finished(t, "crashed"), "crashed")
    ELSE Step([cs EXCEPT ![t.id].status = "failed",
                         ![t.id].error = ERR_NO_ENGINES,
                         ![t.id].end_time = now],
              f, Finished(t, "done"), "false")

\* all_engines_failed that writes a record when there is none
all_engines_failed_put(cs, f, t) ==
    Step(Put(cs, t.id, [NewRecord(t.id, <<"a", ".DOCX">>, t.id, TARGET_URL, "convert")
                           EXCEPT !.status = "failed",
                                  !.error = ERR_ALL_FAILED,
                                  !.end_time = now]),
         f, Finished(t, "done"), "false")

\* lines 547-551: after the for loop.  The subscript raises KeyError when the
\* record is gone, and nothing catches it.
all_engines_failed(cs, f, t) ==
    IF t.id \notin DOMAIN cs
    THEN Step(cs, f, Finished(t, "crashed"), "crashed")
    ELSE Step([cs EXCEPT ![t.id].status = "failed",
                         ![t.id].error = ERR_ALL_FAILED,
                         ![t.id].end_time = now],
              f, Finished(t, "done"), "false")

\* try_engines that calls the engine whether or not the record is there
RECURSIVE try_engines_m(_, _, _, _)
try_engines_m(cs, f, t, i) ==
    IF i > Len(available_engines)
    THEN all_engines_failed(cs, f, t)
    ELSE Step(IF t.id \in DOMAIN cs
              THEN [cs EXCEPT ![t.id].current_engine = available_engines[i]]
              ELSE cs,
              f,
              [t EXCEPT !.pc = "converting", !.engine = i,
                        !.src_ok = exists(f, input_path(t.id)),
                        !.thread = uses_executor(available_engines[i])],
              "none")

\* lines 503-508: the for loop from its i-th iteration up to the call of
\* engine.convert.  A KeyError at line 506 is caught at line 543 and the loop
\* goes on with the next engine.
RECURSIVE try_engines(_, _, _, _)
try_engines(cs, f, t, i) ==
    IF i > Len(available_engines)
    THEN all_engines_failed(cs, f, t)
    ELSE IF t.id \notin DOMAIN cs
    THEN try_engines(cs, f, t, i + 1)
    ELSE Step([cs EXCEPT ![t.id].current_engine = available_engines[i]],
              f,
              [t EXCEPT !.pc = "converting", !.engine = i,
                        !.src_ok = exists(f, input_path(t.id)),
                        !.thread = uses_executor(available_engines[i])],
              "none")

\* remove_after_upload that forgets the output file
remove_after_upload_m(f, id, refused) ==
    LET inp == input_path(id)
    IN  IF exists(f, inp) /\ inp \in refused
        THEN f
        ELSE [f EXCEPT ![inp] = "absent"]

\* lines 524-532: os.remove of the input, then of the output, in one try; a
\* removal that raises skips what follows it
remove_after_upload(f, id, refused) ==
    LET inp == input_path(id)
        out == output_path(id)
    IN  IF exists(f, inp) /\ inp \in refused
        THEN f
        ELSE LET f1 == [f EXCEPT ![inp] = "absent"]
             IN  IF exists(f1, out) /\ out \in refused
                 THEN f1
                 ELSE [f1 EXCEPT ![out] = "absent"]

\* lines 518-539: what convert_file does with upload_pdf_to_target's result.
\* A KeyError here is caught at line 543 and the for loop continues.
after_upload(cs, f, t, ok, refused) ==
    LET s == IF t.id \notin DOMAIN cs
             THEN try_engines(cs, f, t, t.engine + 1)
             ELSE IF ok
             THEN Step([cs EXCEPT ![t.id].status = "completed",
                                  ![t.id].end_time = now],
                       remove_after_upload(f, t.id, refused),
                       Finished(t, "done"), "true")
             ELSE Step([cs EXCEPT ![t.id].status = "upload_failed",
                                  ![t.id].error = ERR_UPLOAD,
                                  ![t.id].end_time = now],
                       f, Finished(t, "done"), "false")
    IN  [s EXCEPT !.upload = IF ok THEN "true" ELSE "false"]

\* lines 432-445: iteration k of the retry loop up to the request.  When
\* open(pdf_path) raises, the outer except (line 486) returns False.
upload_attempt(cs, f, t, k) ==
    IF ~exists(f, output_path(t.id))
    THEN [after_upload(cs, f, [t EXCEPT !.attempt = k], FALSE, {})
             EXCEPT !.opened = "false"]
    ELSE [Step(cs, f, [t EXCEPT !.pc = "posting", !.attempt = k], "none")
             EXCEPT !.opened = "true"]

\* upload_pdf_to_target that delivers for /convert jobs only
upload_pdf_to_target_m(cs, f, t) ==
    IF t.id \notin DOMAIN cs
    THEN after_upload(cs, f, t, FALSE, {})
    ELSE IF cs[t.id].target_url = None \/ cs[t.id].endpoint_type = "convertDua"
    THEN after_upload(cs, f, t, FALSE, {})
    ELSE upload_attempt(cs, f, [t EXCEPT !.post_url = post_url_of(cs[t.id])], 0)

\* lines 404-430: upload_pdf_to_target up to the retry loop
upload_pdf_to_target(cs, f, t) ==
    IF t.id \notin DOMAIN cs
    THEN after_upload(cs, f, t, FALSE, {})
    ELSE IF cs[t.id].target_url = None
    THEN after_upload(cs, f, t, FALSE, {})
    ELSE upload_attempt(cs, f, [t EXCEPT !.post_url = post_url_of(cs[t.id])], 0)

\* lines 462-484: the verdict on the response the loop ended with.  Inside
\* the try, resp.json() raises on a body that is not JSON, and the test
\* `"upload_data" in resp_json` raises TypeError on a scalar; the except
\* clause of line 478 catches both and returns True.
response_ok(r) ==
    IF 200 <= r.status /\ r.status < 300
    THEN IF r.body \in {"not_json", "json_scalar"} THEN TRUE ELSE r.body = "json_marker"
    ELSE FALSE

\* conversion_succeeded without the size check
conversion_succeeded_m(returned, f, out) ==
    returned /\ exists(f, out)

\* line 510: success and os.path.exists(out) and os.path.getsize(out) > 0
conversion_succeeded(returned, f, out) ==
    returned /\ exists(f, out) /\ getsize_positive(f, out)

\* what engine.convert leaves at the output path
engine_effect(f, out, o) ==
    IF o = "ok" THEN [f EXCEPT ![out] = "data"]
    ELSE IF o = "empty" THEN [f EXCEPT ![out] = "empty"]
    ELSE f

\* lines 494-508: convert_file from its start to the first engine.convert
convert_file_start(cs, f, t) ==
    IF t.id \notin DOMAIN cs
    THEN Step(cs, f, Finished(t, "crashed"), "crashed")
    ELSE LET cs1 == [cs EXCEPT ![t.id].status = "processing",
                               ![t.id].start_time = now]
         IN  IF available_engines = <<>>
             THEN Step([cs1 EXCEPT ![t.id].error = ERR_NO_ENGINES,
                                   ![t.id].status = "failed"],
                       f, Finished(t, "done"), "false")
             ELSE try_engines(cs1, f, t, 1)

\* convert_file_resume that calls an engine again when it returned failure
convert_file_resume_m(cs, f, t0, o) ==
    LET t == release_thread(t0, o)
        name == available_engines[t.engine]
        out == output_path(t.id)
        f1 == engine_effect(f, out, o)
    IN  IF o = "raise"
        THEN try_engines(cs, f1, t, t.engine + 1)
        ELSE IF conversion_succeeded(o \in {"ok", "empty"}, f1, out)
        THEN IF t.id \notin DOMAIN cs
             THEN try_engines(cs, f1, t, t.engine + 1)
             ELSE upload_pdf_to_target(
                      [cs EXCEPT ![t.id].status = "uploading",
                                 ![t.id].engine_used = name],
                      f1, t)
        ELSE try_engines(cs, f1, t, t.engine)

\* lines 508-545: engine.convert returns (or raises) and the loop goes on
convert_file_resume(cs, f, t0, o) ==
    LET t == release_thread(t0, o)
        name == available_engines[t.engine]
        out == output_path(t.id)
        f1 == engine_effect(f, out, o)
    IN  IF o = "raise"
        THEN try_engines(cs, f1, t, t.engine + 1)
        ELSE IF conversion_succeeded(o \in {"ok", "empty"}, f1, out)
        THEN IF t.id \notin DOMAIN cs
             THEN try_engines(cs, f1, t, t.engine + 1)
             ELSE upload_pdf_to_target(
                      [cs EXCEPT ![t.id].status = "uploading",
                                 ![t.id].engine_used = name],
                      f1, t)
        ELSE try_engines(cs, f1, t, t.engine + 1)

\* upload_resume that retries on every response that is an error (>= 400)
upload_resume_4xx(cs, f, t, r, refused) ==
    IF r.kind = "error"
    THEN IF t.attempt < max_retries
         THEN Step(cs, f, [t EXCEPT !.pc = "sleeping"], "none")
         ELSE after_upload(cs, f, t, FALSE, refused)
    ELSE IF r.status < 400
    THEN after_upload(cs, f, t, response_ok(r), refused)
    ELSE IF t.attempt < max_retries
    THEN upload_attempt(cs, f, t, t.attempt + 1)
    ELSE after_upload(cs, f, t, response_ok(r), refused)

\* upload_resume that allows one attempt more
upload_resume_more(cs, f, t, r, refused) ==
    IF r.kind = "error"
    THEN IF t.attempt < max_retries + 1
         THEN Step(cs, f, [t EXCEPT !.pc = "sleeping"], "none")
         ELSE after_upload(cs, f, t, FALSE, refused)
    ELSE IF r.status < 500
    THEN after_upload(cs, f, t, response_ok(r), refused)
    ELSE IF t.attempt < max_retries + 1
    THEN upload_attempt(cs, f, t, t.attempt + 1)
    ELSE after_upload(cs, f, t, response_ok(r), refused)

\* upload_resume that gives up one retry early on transport errors
upload_resume_m(cs, f, t, r, refused) ==
    IF r.kind = "error"
    THEN IF t.attempt < max_retries - 1
         THEN Step(cs, f, [t EXCEPT !.pc = "sleeping"], "none")
         ELSE after_upload(cs, f, t, FALSE, refused)
    ELSE IF r.status < 500
    THEN after_upload(cs, f, t, response_ok(r), refused)
    ELSE IF t.attempt < max_retries
    THEN upload_attempt(cs, f, t, t.attempt + 1)
    ELSE after_upload(cs, f, t, response_ok(r), refused)

\* lines 445-460 and 462-484: client.post returns or raises
upload_resume(cs, f, t, r, refused) ==
    IF r.kind = "error"
    THEN IF t.attempt < max_retries
         THEN Step(cs, f, [t EXCEPT !.pc = "sleeping"], "none")
         ELSE after_upload(cs, f, t, FALSE, refused)
    ELSE IF r.status < 500
    THEN after_upload(cs, f, t, response_ok(r), refused)
    ELSE IF t.attempt < max_retries
    THEN upload_attempt(cs, f, t, t.attempt + 1)
    ELSE after_upload(cs, f, t, response_ok(r), refused)

\* ----------------------------------------------------------------- events
\* no upload: the file name and size of an event that is no submission
NoFile == <<<<"", "">>, NoSize>>

\* a step of the clock
NoEvent ==
    [op |-> "other", task |-> 0, id |-> NoId, file |-> NoFile,
     engine_outcome |-> None, post_outcome |-> NoOutcome, refused |-> {},
     ret |-> None, upload |-> None, opened |-> None, gone |-> {}]

\* a step of the reaper, or of a handler called with id that answers ret;
\* refused are the removals the file system refused
HandlerEvent(op, id, ret, refused) ==
    [NoEvent EXCEPT !.op = op, !.id = id, !.ret = ret, !.refused = refused]

\* a step of worker i: o is what engine.convert gave, r what client.post
\* gave, refused the removals the file system refused
WorkerEvent(op, i, s, o, r, refused) ==
    [op |-> op, task |-> i, id |-> NoId, file |-> NoFile, engine_outcome |-> o,
     post_outcome |-> r, refused |-> refused, ret |-> s.ret, upload |-> s.upload,
     opened |-> s.opened, gone |-> {}]

\* a pass of the reaper that removed the records of `gone`; ret is "raised"
\* when an exception ended the pass
SweepEvent(gone, ret, refused) ==
    [HandlerEvent("sweep", NoId, ret, refused) EXCEPT !.gone = gone]

\* a step of a submission handler given the upload <<filename, size>>
SubmitEvent(id, filename, size, ret, refused) ==
    [HandlerEvent("submit", id, ret, refused) EXCEPT !.file = <<filename, size>>]

\* ------------------------------------------------------------------ Init
Init ==
    /\ conversion_status = [k \in {} |-> None]
    /\ files = [p \in Paths |-> "absent"]
    /\ tasks = <<>>
    /\ available_engines \in EngineLists
    /\ now = 0
    /\ reaper_wake = 0
    /\ event = NoEvent
    /\ scope \in Scopes

\* --------------------------------------------------------------- handlers
\* the removals the file system can refuse in a step: some of ps, or none
Refusable(ps) == IF scope.faults THEN SUBSET ps ELSE {{}}

\* whether the write of the upload succeeds
WriteOutcomes == IF scope.faults THEN BOOLEAN ELSE {TRUE}

\* The body shared by POST /convert and POST /convertDua: validation, the
\* write of the upload, the dict assignment and add_task; on an exception
\* both paths are removed with safe_remove_file.  Rejected uploads are
\* followed while the scope still accepts jobs.
submit(endpoint_type, filename, size, id, nomor_urut, target_url, write_ok, refused) ==
    IF ~is_docx(filename) \/ too_large(size)
    THEN /\ Len(tasks) < scope.tasks
         /\ event' = SubmitEvent(NoId, filename, size, "400", {})
         /\ UNCHANGED <<conversion_status, files, tasks, available_engines, now, reaper_wake, scope>>
    ELSE IF ~write_ok
    THEN /\ files' = safe_remove_files(files, {input_path(id), output_path(id)}, refused)
         /\ event' = SubmitEvent(id, filename, size, "500", refused)
         /\ UNCHANGED <<conversion_status, tasks, available_engines, now, reaper_wake, scope>>
    ELSE /\ Len(tasks) < scope.tasks
         /\ files' = [files EXCEPT ![input_path(id)] = "data"]
         /\ conversion_status' =
                Put(conversion_status, id,
                    NewRecord(id, filename, nomor_urut, target_url, endpoint_type))
         /\ tasks' = Append(tasks, NewTask(id))
         /\ event' = SubmitEvent(id, filename, size, "200", {})
         /\ UNCHANGED <<available_engines, now, reaper_wake, scope>>

\* an id that uuid.uuid4() can return: one never seen before
fresh(id) ==
    /\ id \notin DOMAIN conversion_status
    /\ \A i \in 1..Len(tasks) : tasks[i].id # id
    /\ \A p \in {input_path(id), output_path(id)} : ~exists(files, p)

\* POST /convert: nomor_urut and target_url are required form fields
convert_docx ==
    /\ "convert" \in scope.endpoints
    /\ \E filename \in scope.filenames, size \in scope.sizes, nomor_urut \in scope.ids,
          write_ok \in WriteOutcomes :
       \E refused \in IF write_ok THEN {{}}
                      ELSE Refusable({p \in {input_path(nomor_urut), output_path(nomor_urut)} :
                                         exists(files, p)}) :
           submit("convert", filename, size, nomor_urut, nomor_urut, TARGET_URL,
                  write_ok, refused)

\* POST /convertDua: nomor_urut and target_url are optional
convert_dua ==
    /\ "convertDua" \in scope.endpoints
    /\ \E filename \in scope.filenames, size \in scope.sizes,
          nomor_urut \in scope.ids \cup {NoId},
          target_url \in {TARGET_URL, None}, uuid \in scope.ids, write_ok \in WriteOutcomes :
       LET id == IF nomor_urut # NoId THEN nomor_urut ELSE uuid
       IN  /\ IF nomor_urut = NoId THEN fresh(uuid) ELSE uuid = nomor_urut
           /\ \E refused \in IF write_ok THEN {{}}
                             ELSE Refusable({p \in {input_path(id), output_path(id)} :
                                                exists(files, p)}) :
               submit("convertDua", filename, size, id, nomor_urut, target_url,
                      write_ok, refused)

\* cleanup_conversion that deletes without looking the id up
cleanup_conversion_m ==
    \E id \in scope.ids :
        /\ conversion_status' = Del(conversion_status, id)
        /\ event' = HandlerEvent("cleanup", id, "200", {})
        /\ UNCHANGED <<files, tasks, available_engines, now, reaper_wake, scope>>

\* DELETE /cleanup/{conversion_id}
cleanup_conversion ==
    \E id \in scope.ids :
        IF id \notin DOMAIN conversion_status
        THEN /\ event' = HandlerEvent("cleanup", id, "404", {})
             /\ UNCHANGED <<conversion_status, files, tasks, available_engines, now, reaper_wake, scope>>
        ELSE LET ps == {conversion_status[id].input_path,
                        conversion_status[id].output_path}
             IN  \E refused \in Refusable({p \in ps : exists(files, p)}) :
                  /\ files' = safe_remove_files(files, ps, refused)
                  /\ conversion_status' = Del(conversion_status, id)
                  /\ event' = HandlerEvent("cleanup", id, "200", refused)
                  /\ UNCHANGED <<tasks, available_engines, now, reaper_wake, scope>>

\* expired that spares the jobs that have not ended
expired_m(cs, t) ==
    {id \in DOMAIN cs : /\ t - cs[id].created_time > MAX_FILE_AGE
                         /\ cs[id].status \in {"completed", "failed", "upload_failed"}}

\* lines 353-358: the ids whose age is above MAX_FILE_AGE
expired(cs, t) == {id \in DOMAIN cs : t - cs[id].created_time > MAX_FILE_AGE}

\* whether an exception ends the pass (the except clause of line 375); such
\* passes are followed while the sleep they start ends within the clock
SweepOutcomes ==
    IF scope.faults /\ now + CLEANUP_ERROR_SLEEP <= scope.clock THEN BOOLEAN ELSE {FALSE}

\* wake_after for a reaper that an exception puts to sleep for good
wake_after_m(raised) ==
    IF raised THEN now + MaxTime + 1 ELSE now + CLEANUP_INTERVAL

\* lines 372 and 377: the instant at which the sleep that ends the pass ends
wake_after(raised) ==
    now + (IF raised THEN CLEANUP_ERROR_SLEEP ELSE CLEANUP_INTERVAL)

\* One pass of the loop of cleanup_old_conversions, up to its sleep.  A pass
\* that raises has dealt with some of the expired records, `gone`, and left
\* the others.
sweep(raised) ==
    /\ now >= reaper_wake
    /\ raised \in SweepOutcomes
    /\ LET old == expired(conversion_status, now)
       IN  \E gone \in IF raised THEN SUBSET old ELSE {old} :
            LET ps == {conversion_status[id].input_path : id \in gone}
                      \cup {conversion_status[id].output_path : id \in gone}
            IN  \E refused \in Refusable({p \in ps : exists(files, p)}) :
                 /\ files' = safe_remove_files(files, ps, refused)
                 /\ conversion_status' =
                        [k \in (DOMAIN conversion_status) \ gone |->
                            conversion_status[k]]
                 /\ event' = SweepEvent(gone, IF raised THEN "raised" ELSE None,
                                        refused)
    /\ reaper_wake' = wake_after(raised)
    /\ UNCHANGED <<tasks, available_engines, now, scope>>

cleanup_old_conversions == \E raised \in BOOLEAN : sweep(raised)

\* datetime.isoformat()
isoformat(t) == <<"iso", t>>

\* get_status that does not see a record before its worker has started
get_status_m(cs, id) ==
    IF id \notin DOMAIN cs \/ cs[id].status = "queued"
    THEN [code |-> 404, detail |-> "Conversion not found"]
    ELSE [code |-> 200,
          body |-> [k \in (DOMAIN cs[id]) \ {"input_path", "output_path"} |->
                      IF k \in {"created_time", "start_time", "end_time"}
                      THEN IF cs[id][k] = NoTime THEN NoTime ELSE isoformat(cs[id][k])
                      ELSE cs[id][k]]]

\* GET /status/{conversion_id}: a copy of the record without the two paths
\* and with the datetimes that are set as strings
get_status(cs, id) ==
    IF id \notin DOMAIN cs
    THEN [code |-> 404, detail |-> "Conversion not found"]
    ELSE [code |-> 200,
          body |-> [k \in (DOMAIN cs[id]) \ {"input_path", "output_path"} |->
                      IF k \in {"created_time", "start_time", "end_time"}
                      THEN IF cs[id][k] = NoTime THEN NoTime ELSE isoformat(cs[id][k])
                      ELSE cs[id][k]]]

\* the answers of the two fetch handlers: an HTTP error, or the file served
Fetched(path, content) == [code |-> 200, detail |-> None, path |-> path, content |-> content]
HTTPException(code, detail) == [code |-> code, detail |-> detail, path |-> None, content |-> None]

\* GET /download/{conversion_id}
download_pdf(cs, f, id) ==
    IF id \notin DOMAIN cs
    THEN HTTPException(404, "Conversion not found")
    ELSE IF cs[id].status # "completed"
    THEN HTTPException(400, "Conversion not completed")
    ELSE IF ~exists(f, cs[id].output_path)
    THEN HTTPException(404, "PDF file not found")
    ELSE Fetched(cs[id].output_path, f[cs[id].output_path])

\* GET /pdf/{conversion_id}
get_pdf_direct(cs, f, id) ==
    IF id \notin DOMAIN cs
    THEN IF exists(f, output_path(id))
         THEN Fetched(output_path(id), f[output_path(id)])
         ELSE HTTPException(404, "PDF not found")
    ELSE IF ~exists(f, cs[id].output_path)
    THEN HTTPException(404, "PDF file not found")
    ELSE Fetched(cs[id].output_path, f[cs[id].output_path])

\* GET /queue/status: the counts of the answer
count(cs, status) == Cardinality({id \in DOMAIN cs : cs[id].status = status})

queue_status(cs) ==
    LET total == Cardinality(DOMAIN cs)
        completed == count(cs, "completed")
        processing == count(cs, "processing")
        failed == count(cs, "failed")
        queued == total - completed - processing - failed
        wait == ((queued + processing) * avg_processing_time) \div 60
    IN  [service_status |-> IF available_engines # <<>> THEN "online" ELSE "offline",
         total_conversions |-> total,
         queued |-> queued,
         processing |-> processing,
         completed |-> completed,
         failed |-> failed,
         queue_size |-> queued + processing,
         estimated_wait_minutes |-> IF wait > 0 THEN wait ELSE 0]

\* ---------------------------------------------------------------- workers
Apply(i, s) ==
    /\ conversion_status' = s.cs
    /\ files' = s.f
    /\ tasks' = [tasks EXCEPT ![i] = s.t]
    /\ UNCHANGED <<available_engines, now, reaper_wake, scope>>

worker_starts ==
    \E i \in 1..Len(tasks) :
        /\ tasks[i].pc = "pending"
        /\ LET s == convert_file_start(conversion_status, files, tasks[i])
           IN  /\ Apply(i, s)
               /\ event' = WorkerEvent("start", i, s, None, NoOutcome, {})

\* `await engine.convert(...)` of worker i ends with outcome o
engine_return(i, o) ==
    /\ i \in 1..Len(tasks)
    /\ tasks[i].pc = "converting"
    /\ o \in {"ok", "empty"} => tasks[i].src_ok
    /\ LET s == convert_file_resume(conversion_status, files, tasks[i], o)
       IN  /\ Apply(i, s)
           /\ event' = WorkerEvent("engine", i, s, o, NoOutcome, {})

engine_returns ==
    \E i \in 1..Len(tasks), o \in scope.engine_outcomes : engine_return(i, o)

post_returns ==
    \E i \in 1..Len(tasks), r \in scope.post_outcomes :
        /\ tasks[i].pc = "posting"
        /\ \E refused \in IF r.kind = "response" /\ r.status < 500 /\ response_ok(r)
                          THEN Refusable({input_path(tasks[i].id),
                                          output_path(tasks[i].id)})
                          ELSE {{}} :
           LET s == upload_resume(conversion_status, files, tasks[i], r, refused)
           IN  /\ Apply(i, s)
               /\ event' = WorkerEvent("post", i, s, None, r, refused)

\* asyncio.sleep(retry_delay) returns: retry_delay *= 2 and `continue` into
\* the next iteration
sleep_returns ==
    \E i \in 1..Len(tasks) :
        /\ tasks[i].pc = "sleeping"
        /\ LET s == upload_attempt(conversion_status, files,
                                   [tasks[i] EXCEPT !.retry_delay = 2 * @],
                                   tasks[i].attempt + 1)
           IN  /\ Apply(i, s)
               /\ event' = WorkerEvent("wake", i, s, None, NoOutcome, {})

\* time passes
tick ==
    /\ now < scope.clock
    /\ now' = now + 1
    /\ event' = NoEvent
    /\ UNCHANGED <<conversion_status, files, tasks, available_engines, reaper_wake, scope>>

Next ==
    \/ convert_docx
    \/ convert_dua
    \/ worker_starts
    \/ engine_returns
    \/ post_returns
    \/ sleep_returns
    \/ cleanup_conversion
    \/ cleanup_old_conversions
    \/ tick

Spec == Init /\ [][Next]_vars

\* ------------------------------------------------------------ the executor
\* ThreadPoolExecutor(max_workers=MAX_WORKERS): the workers whose call is
\* submitted to it, and the threads that run the calls (the others wait in
\* its queue)
submitted == {i \in 1..Len(tasks) : tasks[i].thread}
busy_threads ==
    IF Cardinality(submitted) < MAX_WORKERS THEN Cardinality(submitted) ELSE MAX_WORKERS
free_threads == MAX_WORKERS - busy_threads

\* ---------------------------------------------------------------- fairness
\* The engines whose convert bounds its own running time: LibreOffice waits
\* for the subprocess under asyncio.wait_for(..., timeout=CONVERSION_TIMEOUT)
\* and kills it; MS Word awaits run_in_executor with no timeout.
has_timeout(name) == name = "LibreOffice"

\* the conversion worker i awaits is one that ends within the timeout
timed_engine_return(i) ==
    /\ i \in 1..Len(tasks)
    /\ tasks[i].pc = "converting"
    /\ has_timeout(available_engines[tasks[i].engine])
    /\ \E o \in scope.engine_outcomes : engine_return(i, o)

\* The event loop runs every task that is ready; a request ends within the
\* httpx timeouts, a sleep ends, and a conversion ends when its engine
\* bounds its running time.
LiveSpec ==
    /\ Spec
    /\ WF_vars(worker_starts)
    /\ WF_vars(post_returns)
    /\ WF_vars(sleep_returns)
    /\ \A i \in 1..MaxTasks : WF_vars(timed_engine_return(i))

\* The runs in which records grow old: those of scope Solo, whose clock
\* goes beyond MAX_FILE_AGE.  The clock advances, and the reaper task,
\* created at startup and looping forever, runs a pass that no exception
\* ends whenever its sleep is over.
ReaperInit == Init /\ scope = Solo

ReaperSpec ==
    /\ ReaperInit
    /\ [][Next]_vars
    /\ WF_vars(tick)
    /\ WF_vars(sweep(FALSE))

\* ================================================================= claims
Terminal == {"completed", "failed", "upload_failed"}
Ended == {"done", "crashed"}

\* the step just taken was a step of worker i
Acted(i) == event'.op # "other" /\ event'.task = i

\* an accepted submission: the step added a worker
Accepted == Len(tasks') = Len(tasks) + 1
AcceptedId == tasks'[Len(tasks')].id

\* C1: at any time at most MAX_WORKERS jobs have status `processing`.
processing_jobs == {id \in DOMAIN conversion_status :
                       conversion_status[id].status = "processing"}
C1_AtMostNProcessing == Cardinality(processing_jobs) <= MAX_WORKERS

\* C2: right after an accepted submission, before any step of its worker, a
\* status query for the returned id answers 200 with status `queued`.
C2_QueuedAfterSubmit ==
    [][Accepted =>
          LET answer == get_status(conversion_status', AcceptedId)
          IN  answer.code = 200 /\ answer.body.status = "queued"]_vars

\* C2 witness: a job whose worker has not started is answered `queued`.
C2_Witness ==
    \E i \in 1..Len(tasks) :
        /\ tasks[i].pc = "pending"
        /\ get_status(conversion_status, tasks[i].id).code = 200
        /\ get_status(conversion_status, tasks[i].id).body.status = "queued"

\* the edges of the status graph and the pairs joined by a path of edges
Edges == {<<"queued", "processing">>, <<"processing", "uploading">>,
          <<"processing", "failed">>, <<"uploading", "completed">>,
          <<"uploading", "upload_failed">>}
Forward == Edges \cup {<<"queued", "uploading">>, <<"queued", "failed">>,
                       <<"queued", "completed">>, <<"queued", "upload_failed">>,
                       <<"processing", "completed">>,
                       <<"processing", "upload_failed">>}

\* C3: every change of the status stored under an id goes forward along the
\* status graph.  One uninterrupted step of a worker can write two statuses
\* in a row, so a change seen between two states is held against the paths
\* of the graph that start where a worker step can start (a worker that
\* steps from `queued` writes `processing` first).
C3_StatusFollowsGraph ==
    [][\A id \in (DOMAIN conversion_status) \cap (DOMAIN conversion_status') :
          conversion_status'[id].status # conversion_status[id].status =>
              <<conversion_status[id].status, conversion_status'[id].status>>
                  \in Forward]_vars

\* C4: a submission under an id that has a record is not accepted.
C4_DuplicateRejected ==
    [][Accepted => AcceptedId \notin DOMAIN conversion_status]_vars

\* C5: the status of a record in a terminal state does not change while the
\* record stays in the store.
C5_TerminalIsFinal ==
    [][\A id \in (DOMAIN conversion_status) \cap (DOMAIN conversion_status') :
          conversion_status[id].status \in Terminal =>
              conversion_status'[id].status = conversion_status[id].status]_vars

\* the record a worker step finds under the worker's id, when there is one
HasRecord(i) == tasks[i].id \in DOMAIN conversion_status
StatusAfter(i) == conversion_status'[tasks[i].id].status

\* C6: within one convert_file call the engines are tried in the order of
\* available_engines and the fallback stops at the first engine that returns
\* success with an output file that exists and is not empty:
\*   - the first engine awaited is the first of the list;
\*   - an engine is awaited after another only when that other is its
\*     predecessor in the list and did not succeed;
\*   - when an engine succeeds no further engine is awaited, and the record
\*     names that engine as engine_used;
\*   - when an engine does not succeed (returns failure, raises, or leaves an
\*     empty output) it is not recorded as engine_used and no delivery starts;
\*   - engine_used of a record changes in no other way, except that a new
\*     submission under the id starts a new record.
C6_FallbackInOrder ==
    [][/\ \A i \in 1..Len(tasks) :
            Acted(i) =>
                LET t == tasks[i]
                    t2 == tasks'[i]
                    success == event'.op = "engine" /\ event'.engine_outcome = "ok"
                IN  /\ t2.pc = "converting" =>
                           \/ t.pc = "pending" /\ t2.engine = 1
                           \/ /\ t.pc = "converting"
                              /\ t2.engine = t.engine + 1
                              /\ ~success
                    /\ t.pc = "converting" =>
                           /\ event'.op = "engine"
                           /\ t.engine \in 1..Len(available_engines)
                    /\ success =>
                           /\ t2.pc # "converting"
                           /\ HasRecord(i) =>
                                  /\ event'.upload # None \/ t2.pc = "posting"
                                  /\ conversion_status'[t.id].engine_used =
                                         available_engines[t.engine]
                    /\ (event'.op = "engine" /\ ~success) =>
                           /\ event'.upload = None
                           /\ t2.pc # "posting"
                           /\ HasRecord(i) =>
                                  conversion_status'[t.id].engine_used =
                                      conversion_status[t.id].engine_used
       /\ \A id \in (DOMAIN conversion_status) \cap (DOMAIN conversion_status') :
            conversion_status'[id].engine_used # conversion_status[id].engine_used =>
                \/ Accepted /\ AcceptedId = id
                \/ /\ event'.op = "engine"
                   /\ event'.engine_outcome = "ok"
                   /\ tasks[event'.task].id = id]_vars

\* C6 witness: the first of two engines did not succeed, the second did and
\* is the engine_used of the record.
C6_Witness ==
    /\ Len(available_engines) = 2
    /\ event.op = "engine"
    /\ event.engine_outcome = "ok"
    /\ tasks[event.task].id \in DOMAIN conversion_status
    /\ conversion_status[tasks[event.task].id].engine_used = available_engines[2]

\* C7: when an engine succeeds for a job submitted without a callback URL,
\* the job is `completed` at once and no delivery attempt is started.
C7_NoCallbackCompletes ==
    [][\A i \in 1..Len(tasks) :
          (/\ Acted(i)
           /\ event'.op = "engine"
           /\ event'.engine_outcome = "ok"
           /\ HasRecord(i)
           /\ conversion_status[tasks[i].id].target_url = None) =>
              /\ StatusAfter(i) = "completed"
              /\ tasks'[i].pc \notin {"posting", "sleeping"}]_vars

\* C8: a delivery attempt is one iteration of the retry loop, numbered by
\* `attempt` from 0.
\*   - the first request of a call has attempt 0, and a request that follows
\*     a sleep has the next number; no request has a number above 3;
\*   - a transport error or timeout on attempts 0, 1 and 2 is followed by a
\*     sleep and another attempt, and nothing is reported yet;
\*   - a transport error or timeout on attempt 3, the fourth, makes
\*     upload_pdf_to_target return False;
\*   - a 404 response makes upload_pdf_to_target return False at once, with
\*     no sleep and no further request.
C8_RetryOnTransportErrors ==
    [][\A i \in 1..Len(tasks) :
          Acted(i) =>
              LET t == tasks[i]
                  t2 == tasks'[i]
                  r == event'.post_outcome
              IN  /\ t2.pc = "posting" => t2.attempt \in 0..3
                  /\ (event'.op = "engine" /\ t2.pc = "posting") => t2.attempt = 0
                  /\ (event'.op = "wake" /\ t2.pc = "posting") =>
                         t2.attempt = t.attempt + 1
                  /\ (event'.op = "post" /\ r = TransportError /\ t.attempt < 3) =>
                         /\ t2.pc = "sleeping"
                         /\ t2.attempt = t.attempt
                         /\ event'.upload = None
                  /\ (event'.op = "post" /\ r = TransportError /\ t.attempt = 3) =>
                         /\ event'.upload = "false"
                         /\ t2.pc \in Ended
                  /\ (event'.op = "post" /\ r.kind = "response" /\ r.status = 404) =>
                         /\ event'.upload = "false"
                         /\ t2.pc \in Ended
                  /\ t.pc = "sleeping" => event'.op = "wake"
                  /\ t2.pc = "sleeping" =>
                         event'.op = "post" /\ r = TransportError]_vars

\* C8 witness: the fourth attempt of a delivery ended in a transport error
\* and the delivery reported failure.
C8_Witness ==
    /\ event.op = "post"
    /\ event.post_outcome = TransportError
    /\ event.upload = "false"
    /\ tasks[event.task].pc = "done"
    /\ tasks[event.task].id \in DOMAIN conversion_status
    /\ conversion_status[tasks[event.task].id].status = "upload_failed"

\* C9 is about deliveries that were under way: the steps in which a request
\* or a sleep between two requests ends.
\* C9 as stated: a successful delivery leaves the record `completed` and both
\* files absent; an unsuccessful one leaves it `upload_failed` and removes
\* no file.
C9_DeliveryOutcome_AsStated ==
    [][\A i \in 1..Len(tasks) :
          (Acted(i) /\ HasRecord(i) /\ event'.op \in {"post", "wake"}) =>
              LET id == tasks[i].id
              IN  /\ event'.upload = "true" =>
                         /\ StatusAfter(i) = "completed"
                         /\ ~exists(files', input_path(id))
                         /\ ~exists(files', output_path(id))
                  /\ event'.upload = "false" =>
                         /\ StatusAfter(i) = "upload_failed"
                         /\ \A p \in Paths : exists(files, p) => exists(files', p)]_vars

\* C9 amended: a successful delivery leaves the record `completed` and
\* removes the input file and then the output file, stopping at the first
\* removal the file system refuses: the input file is absent unless its
\* removal was refused, and the output file is absent unless its removal or
\* that of the input was refused; no other file is touched.  An unsuccessful
\* delivery leaves the record `upload_failed` and removes no file.
C9_DeliveryOutcome ==
    [][\A i \in 1..Len(tasks) :
          (Acted(i) /\ HasRecord(i) /\ event'.op \in {"post", "wake"}) =>
              LET id == tasks[i].id
                  inp == input_path(id)
                  out == output_path(id)
                  inp_refused == exists(files, inp) /\ inp \in event'.refused
                  out_refused == exists(files, out) /\ out \in event'.refused
              IN  /\ event'.upload = "true" =>
                         /\ StatusAfter(i) = "completed"
                         /\ exists(files', inp) <=> inp_refused
                         /\ exists(files', out) <=>
                                (exists(files, out) /\ (inp_refused \/ out_refused))
                         /\ \A p \in Paths \ {inp, out} : files'[p] = files[p]
                  /\ event'.upload = "false" =>
                         /\ StatusAfter(i) = "upload_failed"
                         /\ \A p \in Paths : exists(files, p) => exists(files', p)]_vars

\* C9 witness: a delivery has just succeeded, the record is `completed` and
\* both files are gone.
C9_Witness ==
    /\ event.op = "post"
    /\ event.upload = "true"
    /\ tasks[event.task].id \in DOMAIN conversion_status
    /\ conversion_status[tasks[event.task].id].status = "completed"
    /\ ~exists(files, input_path(tasks[event.task].id))
    /\ ~exists(files, output_path(tasks[event.task].id))

\* a worker step that starts with no engine available, and one in which the
\* last engine of the list does not succeed
NoEngineStep(i) == event'.op = "start" /\ available_engines = <<>>
LastEngineFailsStep(i) ==
    /\ event'.op = "engine"
    /\ event'.engine_outcome # "ok"
    /\ tasks[i].engine = Len(available_engines)

\* C10: when no engine is available the job is `failed` with the error "No
\* conversion engines available"; when the last available engine has failed
\* like those before it (returned failure, timed out, raised or left an empty
\* output) the job is `failed` with the error "All conversion engines
\* failed"; the two errors differ; and `failed` is written in no other step,
\* in particular in none in which an engine succeeded.
C10_FailedOnlyWithoutSuccess ==
    [][/\ ERR_NO_ENGINES # ERR_ALL_FAILED
       /\ \A i \in 1..Len(tasks) :
            (Acted(i) /\ HasRecord(i)) =>
                LET id == tasks[i].id
                IN  /\ NoEngineStep(i) =>
                           /\ StatusAfter(i) = "failed"
                           /\ conversion_status'[id].error = ERR_NO_ENGINES
                    /\ LastEngineFailsStep(i) =>
                           /\ StatusAfter(i) = "failed"
                           /\ conversion_status'[id].error = ERR_ALL_FAILED
                    /\ (event'.op = "engine" /\ event'.engine_outcome = "ok") =>
                           StatusAfter(i) # "failed"
       /\ \A id \in (DOMAIN conversion_status) \cap (DOMAIN conversion_status') :
            (conversion_status'[id].status = "failed"
                 /\ conversion_status[id].status # "failed") =>
                /\ event'.op # "other"
                /\ tasks[event'.task].id = id
                /\ NoEngineStep(event'.task) \/ LastEngineFailsStep(event'.task)]_vars

\* C10 witness: both engines were tried, the second has just failed and the
\* record is `failed` with the all-engines error.
C10_Witness ==
    /\ Len(available_engines) = 2
    /\ event.op = "engine"
    /\ event.engine_outcome # "ok"
    /\ tasks[event.task].id \in DOMAIN conversion_status
    /\ conversion_status[tasks[event.task].id].status = "failed"
    /\ conversion_status[tasks[event.task].id].error = ERR_ALL_FAILED

\* C11: a conversion that a worker awaits does not go on forever: whichever
\* engine runs it, the worker eventually leaves that await (for the next
\* engine, for the delivery, or for `failed`).
C11_ConversionEnds ==
    \A i \in 1..MaxTasks : \A e \in 1..Len(engines) :
        (i \in 1..Len(tasks) /\ tasks[i].pc = "converting" /\ tasks[i].engine = e)
            ~> ~(i \in 1..Len(tasks) /\ tasks[i].pc = "converting"
                                    /\ tasks[i].engine = e)

\* the age of a record at the time of a step
age(id) == now - conversion_status[id].created_time
artifacts(id) == {conversion_status[id].input_path, conversion_status[id].output_path}

SweepBoundary ==
    [][(event'.op = "sweep" /\ event'.ret # "raised") =>
          \A id \in DOMAIN conversion_status :
              /\ age(id) > MAX_FILE_AGE =>
                     /\ id \notin DOMAIN conversion_status'
                     /\ \A p \in artifacts(id) :
                            /\ p \notin event'.refused => ~exists(files', p)
                            /\ p \in event'.refused => files'[p] = files[p]
              /\ age(id) <= MAX_FILE_AGE =>
                     /\ id \in DOMAIN conversion_status'
                     /\ conversion_status'[id] = conversion_status[id]
                     /\ \A p \in artifacts(id) : files'[p] = files[p]]_vars

\* a sweep has just run at an instant at which a job of age
\* exactly MAX_FILE_AGE was in the store, and the job is still there.
SweepBoundaryReached ==
    /\ event.op = "sweep"
    /\ \E id \in DOMAIN conversion_status : age(id) = MAX_FILE_AGE

\* C13: a cleanup call for an id that has a record, whatever its status,
\* answers 200 and removes that record and no other; a cleanup call for an id
\* without a record answers 404 and changes nothing.  So a second call that
\* follows a first with no submission in between answers 404.  No call ends
\* in any other way.
C13_CleanupTwice ==
    [][event'.op = "cleanup" =>
          LET id == event'.id
          IN  /\ event'.ret \in {"200", "404"}
              /\ id \in DOMAIN conversion_status =>
                     /\ event'.ret = "200"
                     /\ DOMAIN conversion_status' = (DOMAIN conversion_status) \ {id}
                     /\ \A k \in DOMAIN conversion_status' :
                            conversion_status'[k] = conversion_status[k]
              /\ id \notin DOMAIN conversion_status =>
                     /\ event'.ret = "404"
                     /\ UNCHANGED <<conversion_status, files, tasks, available_engines,
                                    now, reaper_wake, scope>>]_vars

\* C13 witness: a cleanup call for the id of a submitted job has just been
\* answered 404.
C13_Witness ==
    /\ event.op = "cleanup"
    /\ event.ret = "404"
    /\ \E i \in 1..Len(tasks) : tasks[i].id = event.id

\* C14: for a job submitted without a callback URL, once its engine has
\* succeeded the status is `completed` and GET /download serves the PDF; and
\* once a cleanup call for an id has succeeded, GET /download for it answers
\* 404.
C14_RoundTrip ==
    [][/\ \A i \in 1..Len(tasks) :
            (/\ Acted(i)
             /\ event'.op = "engine"
             /\ event'.engine_outcome = "ok"
             /\ HasRecord(i)
             /\ conversion_status[tasks[i].id].target_url = None) =>
                /\ StatusAfter(i) = "completed"
                /\ download_pdf(conversion_status', files', tasks[i].id).code = 200
       /\ (event'.op = "cleanup" /\ event'.ret = "200") =>
              download_pdf(conversion_status', files', event'.id).code = 404]_vars

\* C15: no fetch serves a file for an id without a record (both handlers
\* answer 404) or for a job whose status is not `completed` (both handlers
\* answer with an error).  The claim names the error of the second case,
\* NotReady; it is held here only to there being an error and no file.
C15_FetchOnlyCompleted ==
    \A id \in Ids :
        LET answers == {download_pdf(conversion_status, files, id),
                        get_pdf_direct(conversion_status, files, id)}
        IN  /\ id \notin DOMAIN conversion_status =>
                   \A a \in answers : a.code = 404
            /\ (id \in DOMAIN conversion_status
                   /\ conversion_status[id].status # "completed") =>
                   \A a \in answers : a.code # 200 /\ a.content = None

\* the creation fields of the record stored under id are all set
CreationFieldsSet(id) ==
    LET rec == conversion_status[id]
    IN  /\ rec.id = id
        /\ rec.filename \in Filenames
        /\ rec.status \in {"queued", "processing", "uploading"} \cup Terminal
        /\ rec.created_time \in 0..now
        /\ rec.input_path = input_path(id)
        /\ rec.output_path = output_path(id)

\* C16: GET /status answers 200 for exactly the ids that have a record and
\* 404 for every other id, and every record in the store has its creation
\* fields set; the answer carries the id, filename, status and creation
\* time of the record.
C16_VisibleAndComplete ==
    \A id \in Ids :
        LET answer == get_status(conversion_status, id)
        IN  /\ answer.code \in {200, 404}
            /\ answer.code = 200 <=> id \in DOMAIN conversion_status
            /\ id \in DOMAIN conversion_status =>
                   /\ CreationFieldsSet(id)
                   /\ answer.body.id = id
                   /\ answer.body.filename = conversion_status[id].filename
                   /\ answer.body.status = conversion_status[id].status
                   /\ answer.body.created_time =
                          isoformat(conversion_status[id].created_time)

\* C16 witness: of two submitted jobs one has been deleted and is answered
\* 404, the other is in the store and is answered 200.
C16_Witness ==
    \E i, j \in 1..Len(tasks) :
        /\ tasks[i].id # tasks[j].id
        /\ get_status(conversion_status, tasks[i].id).code = 200
        /\ get_status(conversion_status, tasks[j].id).code = 404

\* the upload of a submission has a name that does not end in .docx in any
\* letter case, or a reported size above MAX_FILE_SIZE
BadExtension(file) == file[1][2] \notin {".docx", ".DOCX", ".Docx"}
OverCeiling(file) == file[2] # NoSize /\ file[2] > MAX_FILE_SIZE

\* C17: a submission with a bad extension or a size above the ceiling is
\* answered 400 in the step that receives it, and that step changes no
\* record, writes or removes no file and adds no worker; records and workers
\* are added only by submissions answered 200, which are neither.
C17_RejectedLeavesNoTrace ==
    [][/\ event'.op = "submit" =>
            /\ (BadExtension(event'.file) \/ OverCeiling(event'.file)) =>
                   event'.ret = "400"
            /\ event'.ret = "400" =>
                   UNCHANGED <<conversion_status, files, tasks>>
       /\ (Len(tasks') # Len(tasks)
              \/ \E id \in DOMAIN conversion_status' : id \notin DOMAIN conversion_status) =>
            /\ event'.op = "submit"
            /\ event'.ret = "200"
            /\ ~BadExtension(event'.file)
            /\ ~OverCeiling(event'.file)]_vars

\* C17 witness: a .DOCX upload one byte above the ceiling has just been
\* answered 400 while a job was in the store.
C17_Witness ==
    /\ event.op = "submit"
    /\ event.ret = "400"
    /\ ~BadExtension(event.file)
    /\ event.file[2] = MAX_FILE_SIZE + 1
    /\ DOMAIN conversion_status # {}

\* a worker step in which a response to the delivery request arrived
Responded(i) == Acted(i) /\ event'.op = "post" /\ event'.post_outcome.kind = "response"

\* the body of a response can be parsed as JSON / holds the upload_data key
Parseable(r) == r.body # "not_json"
HasMarker(r) == r.body = "json_marker"

\* C18: the delivery reports success exactly when the response it ends with
\* has a 2xx status and a body that either cannot be parsed as JSON or is
\* JSON with the upload_data key.
C18_SuccessVerdict ==
    [][\A i \in 1..Len(tasks) :
          (Responded(i) /\ event'.upload # None) =>
              LET r == event'.post_outcome
              IN  event'.upload = "true" <=>
                      /\ 200 <= r.status /\ r.status <= 299
                      /\ ~Parseable(r) \/ HasMarker(r)]_vars

\* C19: a response with status >= 500 to one of the first three attempts is
\* followed at once by the next attempt, as long as the PDF can still be
\* opened; a response with status >= 500 to the fourth attempt ends the
\* delivery with failure; any response with status < 500 ends the delivery
\* with the verdict on that response, and no further request is made.
C19_RetryOnServerErrors ==
    [][\A i \in 1..Len(tasks) :
          Responded(i) =>
              LET t == tasks[i]
                  t2 == tasks'[i]
                  r == event'.post_outcome
              IN  /\ (r.status >= 500 /\ t.attempt < 3
                         /\ exists(files, output_path(t.id))) =>
                         /\ t2.pc = "posting"
                         /\ t2.attempt = t.attempt + 1
                         /\ event'.upload = None
                  /\ (r.status >= 500 /\ t.attempt < 3
                         /\ ~exists(files, output_path(t.id))) =>
                         /\ t2.pc \in Ended
                         /\ event'.opened = "false"
                         /\ event'.upload = "false"
                  /\ (r.status >= 500 /\ t.attempt = 3) =>
                         /\ t2.pc \in Ended
                         /\ event'.upload = "false"
                  /\ r.status < 500 =>
                         /\ t2.pc \in Ended
                         /\ event'.upload # None]_vars

\* C19 witness: the fourth attempt of a delivery was answered 500 and the
\* delivery reported failure.
C19_Witness ==
    /\ event.op = "post"
    /\ event.post_outcome.kind = "response"
    /\ event.post_outcome.status = 500
    /\ event.upload = "false"
    /\ tasks[event.task].pc = "done"
    /\ tasks[event.task].id \in DOMAIN conversion_status
    /\ conversion_status[tasks[event.task].id].status = "upload_failed"

\* base * 2^k for the retries of one delivery
RECURSIVE backoff(_)
backoff(k) == IF k = 0 THEN initial_retry_delay ELSE 2 * backoff(k - 1)

\* C20: every retry of a delivery (an attempt numbered above 0) starts when
\* a sleep ends, and the sleep before retry k lasted base * 2^(k-1).
C20_BackoffBeforeRetry ==
    [][\A i \in 1..Len(tasks) :
          (/\ Acted(i)
           /\ tasks'[i].pc = "posting"
           /\ tasks'[i].attempt > 0) =>
              /\ event'.op = "wake"
              /\ tasks[i].pc = "sleeping"
              /\ tasks[i].retry_delay = backoff(tasks'[i].attempt - 1)]_vars

\* C21: a pass of the reaper that no exception ends removes the record of
\* every job older than MAX_FILE_AGE, whatever its status and whether or not
\* the removal of one of its files was refused; and a removal is tried at
\* most remove_max_retries times, however often the file system refuses, and
\* is given up (the file stays) exactly when every try was refused.
C21_SweepRemovesRecords ==
    [][(event'.op = "sweep" /\ event'.ret # "raised") =>
          /\ \A id \in DOMAIN conversion_status :
                 age(id) > MAX_FILE_AGE => id \notin DOMAIN conversion_status'
          /\ event'.gone = {id \in DOMAIN conversion_status : age(id) > MAX_FILE_AGE}
          /\ \A p \in event'.refused : exists(files', p)
          /\ \A n \in 0..MaxRefusals :
                 /\ remove_calls(n, 0) \in 1..remove_max_retries
                 /\ remove_result(n) <=> n < remove_max_retries]_vars

\* C21 witness: a pass has just removed the record of a job whose conversion
\* is still awaited, although the removal of one of its files was refused.
C21_Witness ==
    /\ event.op = "sweep"
    /\ event.ret # "raised"
    /\ event.refused # {}
    /\ \E i \in 1..Len(tasks) :
           /\ tasks[i].pc = "converting"
           /\ tasks[i].id \in event.gone
           /\ tasks[i].id \notin DOMAIN conversion_status

C23_SubmissionOrder ==
    [][\A i \in 1..Len(tasks) :
          (Acted(i) /\ event'.op = "start") =>
              \A j \in 1..(i - 1) :
                  tasks[j].id # tasks[i].id => tasks[j].pc # "pending"]_vars

\* C24: every count of the answer of GET /queue/status is the number of
\* records in that status; in particular `queued` is the number of records
\* whose status is `queued`.  (The handler is a function of the dict and
\* writes nothing.)
C24_SnapshotCounts ==
    LET answer == queue_status(conversion_status)
    IN  /\ answer.total_conversions = Cardinality(DOMAIN conversion_status)
        /\ \A s \in {"queued", "processing", "completed", "failed"} :
               answer[s] = count(conversion_status, s)

\* the store holds under id a record older than MAX_FILE_AGE
Overdue(id) == id \in DOMAIN conversion_status /\ age(id) > MAX_FILE_AGE

\* C25: a record that is older than MAX_FILE_AGE does not stay in the store
\* forever, whatever its status and whether or not an earlier pass of the
\* reaper was ended by an exception.
C25_ExpiredRecordsGo == \A id \in Ids : Overdue(id) ~> ~Overdue(id)

\* C25 witness: the pass before raised, and this pass has removed the record
\* of a job whose worker has not even started.
C25_Witness ==
    /\ event.op = "sweep"
    /\ event.ret # "raised"
    /\ \E i \in 1..Len(tasks) :
           /\ tasks[i].pc = "pending"
           /\ tasks[i].id \in event.gone
           /\ tasks[i].id \notin DOMAIN conversion_status

\* a step of a worker
WorkerOps == {"start", "engine", "post", "wake"}

\* C26: a record carries an error exactly when its status is `failed` or
\* `upload_failed`.
C26_ErrorIffFailed ==
    \A id \in DOMAIN conversion_status :
        conversion_status[id].error # None
            <=> conversion_status[id].status \in {"failed", "upload_failed"}

\* C27: once engine_used is set in the record under an id, no step of a
\* worker changes it.
C27_EngineUsedSetOnce ==
    [][\A id \in (DOMAIN conversion_status) \cap (DOMAIN conversion_status') :
          (event'.op \in WorkerOps /\ conversion_status[id].engine_used # None) =>
              conversion_status'[id].engine_used = conversion_status[id].engine_used]_vars

\* the datetimes of a record that are set are in order
InOrder(rec) ==
    /\ rec.start_time # NoTime => rec.created_time <= rec.start_time
    /\ rec.end_time # NoTime => rec.created_time <= rec.end_time
    /\ (rec.start_time # NoTime /\ rec.end_time # NoTime) =>
           rec.start_time <= rec.end_time

\* C28: in every record created_time <= start_time <= end_time for those
\* that are set, and no step of a worker changes one that is set.
C28_TimestampsOrdered ==
    [][\A id \in (DOMAIN conversion_status) \cap (DOMAIN conversion_status') :
          /\ InOrder(conversion_status'[id])
          /\ event'.op \in WorkerOps =>
                 \A k \in {"created_time", "start_time", "end_time"} :
                     conversion_status[id][k] # NoTime =>
                         conversion_status'[id][k] = conversion_status[id][k]]_vars

\* the step removed a file of the record under id, or wrote its input anew
Removed(id) == \E p \in artifacts(id) : exists(files, p) /\ ~exists(files', p)
Rewritten(id) == event'.op = "submit" /\ event'.ret = "200" /\ event'.id = id

\* C29: the files of a job that has a record are removed or written anew
\* only by a step of a worker of that id in which the delivery succeeded, by
\* a pass of the reaper in which the job is older than MAX_FILE_AGE, or by a
\* cleanup call for that id.
C29_ArtifactsOwned ==
    [][\A id \in DOMAIN conversion_status :
          (Removed(id) \/ Rewritten(id)) =>
              \/ /\ event'.op \in WorkerOps
                 /\ tasks[event'.task].id = id
                 /\ event'.upload = "true"
              \/ event'.op = "sweep" /\ age(id) > MAX_FILE_AGE
              \/ event'.op = "cleanup" /\ event'.id = id]_vars

\* C30: when the step of a worker in which the delivery succeeded has
\* removed a file of the job, the record no longer names that file: the path
\* is cleared.  (The record has no field that could flag a path as stale.)
C30_PathsCleared ==
    [][\A i \in 1..Len(tasks) :
          (Acted(i) /\ HasRecord(i) /\ event'.upload = "true") =>
              \A k \in {"input_path", "output_path"} :
                  LET p == conversion_status[tasks[i].id][k]
                  IN  (exists(files, p) /\ ~exists(files', p)) =>
                          conversion_status'[tasks[i].id][k] = None]_vars

\* C31: within one convert_file call no engine is awaited twice: the engines
\* of available_engines are pairwise different, a worker that starts awaits
\* an engine for the first time, and an engine awaited after another stands
\* later in the list; so an engine that failed, timed out or raised for a
\* job is not called again for it.
C31_EngineOnce ==
    [][/\ \A a, b \in 1..Len(available_engines) :
             available_engines[a] = available_engines[b] => a = b
       /\ \A i \in 1..Len(tasks) :
             (Acted(i) /\ tasks'[i].pc = "converting") =>
                 /\ tasks[i].pc = "pending" => event'.op = "start"
                 /\ tasks[i].pc # "pending" =>
                        /\ tasks[i].pc = "converting"
                        /\ tasks'[i].engine > tasks[i].engine]_vars

\* C31 witness: the first engine has just failed for a job and its worker
\* awaits the second.
C31_Witness ==
    /\ event.op = "engine"
    /\ event.engine_outcome = "fail"
    /\ tasks[event.task].pc = "converting"
    /\ tasks[event.task].engine = 2

\* the other endpoint, and the store with the endpoint of one record changed
other_endpoint(e) == IF e = "convert" THEN "convertDua" ELSE "convert"
Swapped(cs, id) == [cs EXCEPT ![id].endpoint_type = other_endpoint(@)]

\* what the step just taken by worker i gives when it is taken on the store cs
SameStep(i, cs) ==
    CASE event'.op = "start" -> convert_file_start(cs, files, tasks[i])
      [] event'.op = "engine" ->
             convert_file_resume(cs, files, tasks[i], event'.engine_outcome)
      [] event'.op = "post" ->
             upload_resume(cs, files, tasks[i], event'.post_outcome, event'.refused)
      [] event'.op = "wake" ->
             upload_attempt(cs, files, [tasks[i] EXCEPT !.retry_delay = 2 * @],
                            tasks[i].attempt + 1)

\* C32: endpoint_type decides the path of the delivery URL and nothing else.
\* Take any step of a worker and the same step (same engine outcome, same
\* response, same refusals) on a record that differs only in endpoint_type:
\* both leave the same record but for endpoint_type (so the same status,
\* engine_used and error), the same files and the same worker but for the
\* path of its URL, and both return the same; the URL has the base the job
\* was given and the path of its endpoint.
C32_EndpointOnlyInUrl ==
    [][\A i \in 1..Len(tasks) :
          (Acted(i) /\ HasRecord(i)) =>
              LET id == tasks[i].id
                  s == SameStep(i, Swapped(conversion_status, id))
              IN  /\ s.cs = Swapped(conversion_status', id)
                  /\ s.f = files'
                  /\ [s.t EXCEPT !.post_url = NoUrl]
                         = [tasks'[i] EXCEPT !.post_url = NoUrl]
                  /\ s.t.post_url[1] = tasks'[i].post_url[1]
                  /\ s.ret = event'.ret
                  /\ s.upload = event'.upload
                  /\ (event'.op = "engine" /\ tasks'[i].pc = "posting") =>
                         /\ tasks'[i].post_url = post_url_of(conversion_status[id])
                         /\ s.t.post_url[2] # tasks'[i].post_url[2]]_vars

\* C32 witness: a job of /convertDua with a callback URL has been delivered
\* and is `completed`.
C32_Witness ==
    /\ event.op = "post"
    /\ event.upload = "true"
    /\ tasks[event.task].id \in DOMAIN conversion_status
    /\ conversion_status[tasks[event.task].id].endpoint_type = "convertDua"
    /\ conversion_status[tasks[event.task].id].target_url = TARGET_URL
    /\ conversion_status[tasks[event.task].id].status = "completed"

\* the workers that have not ended
InFlight == {i \in 1..Len(tasks) : tasks[i].pc \notin Ended}

\* C33: no two workers that have not ended work on the same id.
C33_OneWorkerPerId ==
    \A i, j \in InFlight : tasks[i].id = tasks[j].id => i = j

\* C34: an id enters the store only in the step of a submission that is
\* answered 200 for that id; no step of a worker, of the reaper or of a
\* cleanup call adds an id, so a worker whose record was removed does not
\* bring it back.
C34_OnlySubmitAdds ==
    [][\A id \in DOMAIN conversion_status' :
          id \notin DOMAIN conversion_status =>
              /\ event'.op = "submit"
              /\ event'.ret = "200"
              /\ event'.id = id]_vars

\* C34 witness: the conversion awaited by a worker has just returned, the
\* record of its job was removed meanwhile and is not in the store.
C34_Witness ==
    /\ event.op = "engine"
    /\ tasks[event.task].pc \in Ended
    /\ tasks[event.task].id \notin DOMAIN conversion_status

C36_NoPostWithoutRecord ==
    [][\A i \in 1..Len(tasks) :
          (Acted(i) /\ tasks'[i].pc = "posting") =>
              tasks[i].id \in DOMAIN conversion_status']_vars

\* C37: every record in a terminal status has its start time and its end
\* time set.
C37_TerminalHasTimes ==
    \A id \in DOMAIN conversion_status :
        conversion_status[id].status \in Terminal =>
            /\ conversion_status[id].start_time # NoTime
            /\ conversion_status[id].end_time # NoTime

\* how far a delivery has come: its attempts and the sleep after the last
rank(t) == 2 * t.attempt + (IF t.pc = "sleeping" THEN 1 ELSE 0)

\* the attempt that just ended got no response with a status below 500
NoAnswerBelow500(r) == r = TransportError \/ (r.kind = "response" /\ r.status >= 500)

\* C38: whatever mix of transport errors and responses with status >= 500
\* the attempts of one delivery meet, every step of the delivery either
\* ends it or takes it further (the next attempt, or the sleep before it),
\* no attempt is numbered above 3, so there are at most 4 and the delivery
\* ends; and when it ends on an attempt that got no response below 500, it
\* reports failure and the record is `upload_failed`, not `completed`.
C38_MixedFailuresEnd ==
    [][\A i \in 1..Len(tasks) :
          (Acted(i) /\ tasks[i].pc \in {"posting", "sleeping"}) =>
              LET t == tasks[i]
                  t2 == tasks'[i]
              IN  /\ t2.pc \in Ended \cup {"posting", "sleeping"}
                  /\ t2.pc \notin Ended =>
                         /\ rank(t2) > rank(t)
                         /\ t2.attempt \in 0..3
                         /\ event'.upload = None
                  /\ (t2.pc \notin Ended /\ event'.op = "post") =>
                         NoAnswerBelow500(event'.post_outcome)
                  /\ (t2.pc \in Ended /\ event'.op = "post"
                         /\ NoAnswerBelow500(event'.post_outcome)) =>
                         /\ event'.upload = "false"
                         /\ HasRecord(i) => StatusAfter(i) = "upload_failed"]_vars

\* C38 witness: the fourth attempt of a delivery is under way after one
\* transport error and two responses with status >= 500.
C38_Witness ==
    \E i \in 1..Len(tasks) :
        /\ tasks[i].pc = "posting"
        /\ tasks[i].attempt = 3
        /\ tasks[i].retry_delay = 2 * initial_retry_delay

\* C39: a record becomes `completed` only in the step in which a delivery
\* request of a worker of that id is answered with a 2xx response that the
\* delivery reports as success; and a `completed` record has engine_used set.
C39_CompletedMeansDelivered ==
    [][\A id \in DOMAIN conversion_status' :
          conversion_status'[id].status = "completed" =>
              /\ conversion_status'[id].engine_used # None
              /\ (id \notin DOMAIN conversion_status
                     \/ conversion_status[id].status # "completed") =>
                     /\ event'.op = "post"
                     /\ tasks[event'.task].id = id
                     /\ event'.post_outcome.kind = "response"
                     /\ event'.post_outcome.status \in 200..299
                     /\ event'.upload = "true"]_vars

\* C40: a pass of the reaper selects and removes in one step: the ids it
\* removes are in the store when the step begins, are all the expired ones
\* unless an exception ends the pass, and are exactly what leaves the store,
\* while no record that stays and no worker changes in that step.  A cleanup
\* call looks the id up and removes it in one step: it answers 200 exactly
\* when the id is in the store as the step begins, and then exactly that id
\* leaves the store; it answers 404 otherwise, and in no other way.
C40_RemovalsAtomic ==
    [][/\ event'.op = "sweep" =>
             /\ event'.gone \subseteq DOMAIN conversion_status
             /\ event'.gone \subseteq expired(conversion_status, now)
             /\ event'.ret # "raised" =>
                    event'.gone = expired(conversion_status, now)
             /\ DOMAIN conversion_status' = (DOMAIN conversion_status) \ event'.gone
             /\ \A id \in DOMAIN conversion_status' :
                    conversion_status'[id] = conversion_status[id]
             /\ tasks' = tasks
       /\ event'.op = "cleanup" =>
             /\ event'.ret \in {"200", "404"}
             /\ event'.ret = "200" <=> event'.id \in DOMAIN conversion_status
             /\ DOMAIN conversion_status' = (DOMAIN conversion_status) \ {event'.id}
             /\ \A id \in DOMAIN conversion_status' :
                    conversion_status'[id] = conversion_status[id]
             /\ tasks' = tasks]_vars

\* C40 witness: a pass of the reaper has just removed the record of a job
\* whose delivery request is under way.
C40_Witness ==
    /\ event.op = "sweep"
    /\ \E i \in 1..Len(tasks) :
           /\ tasks[i].pc = "posting"
           /\ tasks[i].id \in event.gone
           /\ tasks[i].id \notin DOMAIN conversion_status

====
